---- MODULE Spec2Model ----
(***************************************************************************)
(* Model of src/src/utils/tx_tools.py: the conversion of a ledger          *)
(* transaction into the script context (to_tx_info and its converters)     *)
(* and the witness resolver generate_script_contexts_resolved.             *)
(*                                                                         *)
(* Python values are encoded as follows.                                   *)
(*   Optional[T]  : None is <<>>, a present value x is <<x>>               *)
(*   list         : a sequence                                             *)
(*   dict         : a function (key order, where the code iterates a dict, *)
(*                  is kept as a sequence of <<key, value>> pairs)          *)
(*   bytes        : a string; b"" is ""                                    *)
(*   an exception : a record [type, msg, pos]                              *)
(***************************************************************************)
EXTENDS Integers, Sequences, FiniteSets, TLC

VARIABLES
    tx,                         \* pycardano.Transaction: body and witness set
    resolved_inputs,            \* List[UTxO], aligned with the body's inputs
    resolved_reference_inputs,  \* List[UTxO]
    tx_info,                    \* local of generate_script_contexts_resolved
    script_contexts,            \* local list of ScriptInvocation
    i,                          \* loop index of the running for loop
    pc,                         \* position in generate_script_contexts_resolved
    error,                      \* the exception that left the function at pc, if any
    returned                    \* the value the function returned, if any

vars == <<tx, resolved_inputs, resolved_reference_inputs, tx_info,
          script_contexts, i, pc, error, returned>>

----------------------------------------------------------------------------
\* Encoding of Optional

None == <<>>
Some(x) == <<x>>
Get(o) == o[1]

Range(s) == {s[j] : j \in 1..Len(s)}

\* next(x for x in seq if ...), hits being the positions of seq that satisfy the
\* condition: the first match, None on StopIteration
first_match(seq, hits) ==
    IF hits = {} THEN None
    ELSE Some(seq[CHOOSE j \in hits : \A k \in hits : j <= k])

RECURSIVE concat_scripts(_)
\* the non-None output.script of each UTxO of a list, in list order
concat_scripts(utxos) ==
    IF utxos = <<>> THEN <<>>
    ELSE LET s == Head(utxos).output.script
         IN  (IF s = None THEN <<>> ELSE <<Get(s)>>) \o concat_scripts(Tail(utxos))

----------------------------------------------------------------------------
\* Ledger objects (pycardano)

VerificationKeyHash(p) == [type |-> "VerificationKeyHash", payload |-> p]
ScriptHash(p) == [type |-> "ScriptHash", payload |-> p]
DatumHash(p) == [type |-> "DatumHash", payload |-> p]
TransactionInput(id, idx) == [transaction_id |-> id, index |-> idx]
Redeemer(tag, idx, data) == [tag |-> tag, index |-> idx, data |-> data]
LedgerValue(coin, ma) == [coin |-> coin, multi_asset |-> ma]
TransactionOutput(pay, stake, amount, datum, dh, script) ==
    [address |-> [payment_part |-> pay, staking_part |-> stake],
     amount |-> amount, datum |-> datum, datum_hash |-> dh, script |-> script]
UTxO(inp, out) == [input |-> inp, output |-> out]

\* compiled scripts and datums of the model, with their content hashes
Scripts == {"s1", "s2"}
Datums == {"d1", "d2"}
ScriptDigest == ("s1" :> "h1") @@ ("s2" :> "h2")
DatumDigest == ("d1" :> "H1") @@ ("d2" :> "H2") @@ ("r1" :> "R1") @@ ("r2" :> "R2")

plutus_script_hash(s) == ScriptHash(ScriptDigest[s])
datum_hash(d) == DatumDigest[d]

----------------------------------------------------------------------------
\* Converters

to_staking_hash_defined(sk) ==
    sk # None /\ Get(sk).type \in {"PointerAddress", "VerificationKeyHash", "ScriptHash"}

to_staking_hash(sk) ==
    LET k == Get(sk)
    IN  CASE k.type = "PointerAddress" ->
               [tag |-> "StakingPtr", slot |-> k.slot, tx_index |-> k.tx_index,
                cert_index |-> k.cert_index]
          [] k.type = "VerificationKeyHash" ->
               [tag |-> "StakingHash",
                value |-> [tag |-> "PubKeyCredential", hash |-> k.payload]]
          [] k.type = "ScriptHash" ->
               [tag |-> "StakingHash",
                value |-> [tag |-> "ScriptCredential", hash |-> k.payload]]

to_staking_credential(sk) ==
    IF to_staking_hash_defined(sk)
    THEN [tag |-> "SomeStakingCredential", value |-> Some(to_staking_hash(sk))]
    ELSE [tag |-> "NoStakingCredential", value |-> None]

\* to_valid_range with the upper bound taken from the start slot
to_valid_range_upper_from_start(validity_start, ttl) ==
    [lower_bound |->
        IF validity_start = None
        THEN [limit |-> [tag |-> "NegInfPOSIXTime", time |-> None], closed |-> FALSE]
        ELSE [limit |-> [tag |-> "FinitePOSIXTime", time |-> Some(Get(validity_start))],
              closed |-> TRUE],
     upper_bound |->
        IF validity_start = None
        THEN [limit |-> [tag |-> "PosInfPOSIXTime", time |-> None], closed |-> FALSE]
        ELSE [limit |-> [tag |-> "FinitePOSIXTime", time |-> Some(Get(validity_start))],
              closed |-> TRUE]]

to_valid_range(validity_start, ttl) ==
    LET lower_bound ==
            IF validity_start = None
            THEN [limit |-> [tag |-> "NegInfPOSIXTime", time |-> None], closed |-> FALSE]
            ELSE [limit |-> [tag |-> "FinitePOSIXTime", time |-> Some(Get(validity_start))],
                  closed |-> TRUE]
        upper_bound ==
            IF ttl = None
            THEN [limit |-> [tag |-> "PosInfPOSIXTime", time |-> None], closed |-> FALSE]
            ELSE [limit |-> [tag |-> "FinitePOSIXTime", time |-> Some(Get(ttl))],
                  closed |-> TRUE]
    IN  [lower_bound |-> lower_bound, upper_bound |-> upper_bound]

\* Line 87 unpacks what iterating an Asset yields into (asset_name, quantity).
\* What that yields is pycardano's choice, not this repository's: (name, quantity)
\* pairs build the tokens as below, names alone cannot be unpacked and the
\* conversion raises TypeError. Both outcomes are kept (to_tx_info_raises).
\* iterates_asset_entries: line 87 meets at least one entry of an Asset of ma.
iterates_asset_entries(ma) == ma # <<>> /\ \E j \in 1..Len(ma[1]) : ma[1][j][2] # <<>>

\* an Asset is a sequence of <<AssetName, quantity>>; TokenName(asset_name) is its bytes
asset_to_tokens(asset) ==
    [t \in {e[1] : e \in Range(asset)} |->
        (CHOOSE e \in Range(asset) : e[1] = t)[2]]

\* a MultiAsset is a sequence of <<ScriptHash, Asset>> with distinct policies;
\* PolicyId(policy_id) is the payload of the script hash
multiasset_to_value(ma) ==
    IF ma = None THEN ("" :> ("" :> 0))
    ELSE LET m == Get(ma)
         IN  [p \in {e[1].payload : e \in Range(m)} |->
                asset_to_tokens((CHOOSE e \in Range(m) : e[1].payload = p)[2])]

value_to_value(v) ==
    LET ma == multiasset_to_value(v.multi_asset)
    IN  [p \in DOMAIN ma \cup {""} |-> IF p = "" THEN ("" :> v.coin) ELSE ma[p]]

\* Exception(type, msg, pos): pos is the position an error message names, None
\* when it names none
Exception(type, msg, pos) == [type |-> type, msg |-> msg, pos |-> pos]
NoPos == None
UnknownPaymentKey == Exception("NotImplementedError", "Unknown payment key type", NoPos)

\* the two isinstance tests of to_payment_credential
to_payment_credential_defined(c) == c.type \in {"VerificationKeyHash", "ScriptHash"}

\* the third branch is the raise of line 106: its value is the exception raised
to_payment_credential(c) ==
    IF c.type = "VerificationKeyHash"
    THEN [tag |-> "PubKeyCredential", hash |-> c.payload]
    ELSE IF c.type = "ScriptHash"
    THEN [tag |-> "ScriptCredential", hash |-> c.payload]
    ELSE UnknownPaymentKey

to_address(a) ==
    [payment_credential |-> to_payment_credential(a.payment_part),
     staking_credential |-> to_staking_credential(a.staking_part)]

to_tx_out(o) ==
    LET output_datum ==
            IF o.datum # None
            THEN [tag |-> "SomeOutputDatum", value |-> Get(o.datum)]
            ELSE IF o.datum_hash # None
            THEN [tag |-> "SomeOutputDatumHash", value |-> Get(o.datum_hash)]
            ELSE [tag |-> "NoOutputDatum", value |-> ""]
        script ==
            IF o.script = None THEN [tag |-> "NoScriptHash", value |-> ""]
            ELSE [tag |-> "SomeScriptHash",
                  value |-> plutus_script_hash(Get(o.script)).payload]
    IN  [address |-> to_address(o.address),
         value |-> value_to_value(o.amount),
         datum |-> output_datum,
         reference_script |-> script]

to_tx_out_ref(inp) == [id |-> [tx_id |-> inp.transaction_id], idx |-> inp.index]

to_tx_in_info(inp, o) == [out_ref |-> to_tx_out_ref(inp), resolved |-> to_tx_out(o)]

\* zip(a, b): pairs up to the shorter list
\* the outputs zip(inps, outs) pairs with an input: the shorter list ends the zip
zipped_outputs(inps, outs) ==
    SubSeq(outs, 1, IF Len(inps) <= Len(outs) THEN Len(inps) ELSE Len(outs))

zip_tx_in_info(inps, outs) ==
    [j \in 1..(IF Len(inps) <= Len(outs) THEN Len(inps) ELSE Len(outs)) |->
        to_tx_in_info(inps[j], outs[j])]

outputs_of(utxos) == [j \in 1..Len(utxos) |-> utxos[j].output]

----------------------------------------------------------------------------
\* Exceptions

CertificatesError == Exception("NotImplementedError", "Can not convert certificates yet", NoPos)
NoneNotIterable == Exception("TypeError", "'NoneType' object is not iterable", NoPos)
CannotUnpack == Exception("TypeError", "cannot unpack non-iterable object", NoPos)
MissingSpendRedeemer(k) ==
    Exception("ValueError", "Missing redeemer for script input", Some(k))
MissingMintRedeemer(k) == Exception("ValueError", "Missing redeemer for mint", Some(k))
ScriptNotInContext ==
    Exception("NotImplementedError", "Can not validate spending of non plutus v2 script", NoPos)
NoDatumWithHash == Exception("ValueError", "No datum with hash", NoPos)
NoAttachedDatum ==
    Exception("ValueError", "Spending input is missing an attached datum", NoPos)
\* bytes has no attribute hash; with one, ScriptInvocation would lack an argument
MintInvocationErrors ==
    {Exception("AttributeError", "object has no attribute 'hash'", NoPos),
     Exception("TypeError", "missing 1 required positional argument", NoPos)}

----------------------------------------------------------------------------
\* TxInfo builder

\* datums collected by to_tx_info, in the order of the list
tx_info_datums(t, routs, rrouts) ==
    LET outs == t.transaction_body.outputs \o routs \o rrouts
        inline == {Get(outs[j].datum) : j \in {k \in 1..Len(outs) : outs[k].datum # None}}
        pd == t.transaction_witness_set.plutus_data
    IN  inline \cup (IF pd # None /\ Get(pd) # <<>> THEN Range(Get(pd)) ELSE {})

redeemer_hash(r) == <<r.tag, r.index, r.data>>

\* how to_tx_info can end: the exception it raises, None when it returns. The
\* arguments of TxInfo are evaluated in order: the resolved outputs zipped with
\* the body's inputs, those zipped with its reference inputs (none when the body
\* has no reference inputs), and the body's outputs, each converting its address
\* (line 106) before its value (line 87), then the mint (line 87), then the
\* certificates, then the redeemers. The first raise ends the call; the two
\* outcomes of line 87 give two ends.
to_tx_info_raises(t, routs, rrouts) ==
    LET certs == t.transaction_body.certificates
        brefs == t.transaction_body.reference_inputs
        outs == zipped_outputs(t.transaction_body.inputs, routs)
                \o (IF brefs # None THEN zipped_outputs(Get(brefs), rrouts) ELSE <<>>)
                \o t.transaction_body.outputs
        unknown == {j \in 1..Len(outs) :
                        ~ to_payment_credential_defined(outs[j].address.payment_part)}
        tokens == {j \in 1..Len(outs) : iterates_asset_entries(outs[j].amount.multi_asset)}
        after == IF certs # None /\ Get(certs) # <<>> THEN Some(CertificatesError)
                 ELSE IF t.transaction_witness_set.redeemer = None
                 THEN Some(NoneNotIterable)
                 ELSE None
        \* iterating an Asset yields pairs: line 87 never raises
        pairs == IF unknown # {} THEN Some(UnknownPaymentKey) ELSE after
        \* iterating an Asset yields names: line 87 raises at the first entry
        names == IF \E j \in tokens : \A k \in unknown : j < k THEN Some(CannotUnpack)
                 ELSE IF unknown # {} THEN Some(UnknownPaymentKey)
                 ELSE IF iterates_asset_entries(t.transaction_body.mint)
                 THEN Some(CannotUnpack)
                 ELSE after
    IN  {pairs, names}

to_tx_info(t, routs, rrouts) ==
    LET tx_body == t.transaction_body
        datums == tx_info_datums(t, routs, rrouts)
        reds == Get(t.transaction_witness_set.redeemer)
    IN  [inputs |-> zip_tx_in_info(tx_body.inputs, routs),
         reference_inputs |->
            IF tx_body.reference_inputs # None
            THEN zip_tx_in_info(Get(tx_body.reference_inputs), rrouts)
            ELSE <<>>,
         outputs |-> [j \in 1..Len(tx_body.outputs) |-> to_tx_out(tx_body.outputs[j])],
         fee |-> value_to_value(LedgerValue(tx_body.fee, Some(<<>>))),
         mint |-> multiasset_to_value(tx_body.mint),
         dcert |-> <<>>,
         wdrl |-> <<>>,
         valid_range |-> to_valid_range(tx_body.validity_start, tx_body.ttl),
         signatories |-> <<>>,
         data |-> [h \in {datum_hash(d) : d \in datums} |->
                     CHOOSE d \in datums : datum_hash(d) = h],
         redeemers |-> [h \in {redeemer_hash(r) : r \in Range(reds)} |->
                     CHOOSE r \in Range(reds) : redeemer_hash(r) = h],
         id |-> [tx_id |-> tx_body.id]]

----------------------------------------------------------------------------
\* Witness resolver: the lookups of one loop iteration

\* first_match taking the last match instead of the first
last_match(seq, hits) ==
    IF hits = {} THEN None
    ELSE Some(seq[CHOOSE j \in hits : \A k \in hits : j >= k])

\* spending_redeemer resolving several matches to the last of them
spending_redeemer_last(t, k) ==
    LET reds == Get(t.transaction_witness_set.redeemer)
    IN  last_match(reds, {j \in 1..Len(reds) :
                            reds[j].index = k /\ reds[j].tag = "SPEND"})

spending_redeemer(t, k) ==
    LET reds == Get(t.transaction_witness_set.redeemer)
    IN  first_match(reds, {j \in 1..Len(reds) :
                            reds[j].index = k /\ reds[j].tag = "SPEND"})

minting_redeemer(t, k) ==
    LET reds == Get(t.transaction_witness_set.redeemer)
    IN  first_match(reds, {j \in 1..Len(reds) :
                            reds[j].index = k /\ reds[j].tag = "MINT"})

\* the witness set's plutus_v2_script after lines 243-246: `x or []` is x itself
\* when x is a non-empty list, so the appends land in the witness set's own list
scripts_after_pool(t, ris, rris) ==
    LET w == t.transaction_witness_set.plutus_v2_script
    IN  IF w # None /\ Get(w) # <<>>
        THEN Some(Get(w) \o concat_scripts(rris \o ris))
        ELSE w

\* the local list potential_scripts after lines 243-246
potential_scripts(t, ris, rris) ==
    LET w == t.transaction_witness_set.plutus_v2_script
    IN  (IF w # None /\ Get(w) # <<>> THEN Get(w) ELSE <<>>)
        \o concat_scripts(rris \o ris)

\* next(s for s in tx.transaction_witness_set.plutus_v2_script if hash(s) == h);
\* None also when the list is None (TypeError) in the spending loop
find_script(w, h) ==
    IF w = None THEN None
    ELSE first_match(Get(w), {j \in 1..Len(Get(w)) : plutus_script_hash(Get(w)[j]) = h})

\* resolve_datum looking the datum hash up before the inline datum
resolve_datum_hash_first(t, o) ==
    IF o.datum_hash # None
    THEN LET pd == t.transaction_witness_set.plutus_data
             data == IF pd = None THEN <<>> ELSE Get(pd)
             found == first_match(data, {j \in 1..Len(data) :
                                            datum_hash(data[j]) = Get(o.datum_hash)})
         IN  IF found = None THEN [datum |-> None, error |-> Some(NoDatumWithHash)]
             ELSE [datum |-> found, error |-> None]
    ELSE IF o.datum # None THEN [datum |-> o.datum, error |-> None]
    ELSE [datum |-> None, error |-> Some(NoAttachedDatum)]

\* datum resolution of a spending input: [datum, error], one of them None
resolve_datum(t, o) ==
    IF o.datum # None THEN [datum |-> o.datum, error |-> None]
    ELSE IF o.datum_hash # None
    THEN LET pd == t.transaction_witness_set.plutus_data
             data == IF pd = None THEN <<>> ELSE Get(pd)
             found == first_match(data, {j \in 1..Len(data) :
                                            datum_hash(data[j]) = Get(o.datum_hash)})
         IN  IF found = None THEN [datum |-> None, error |-> Some(NoDatumWithHash)]
             ELSE [datum |-> found, error |-> None]
    ELSE [datum |-> None, error |-> Some(NoAttachedDatum)]

Spending(ref) == [tag |-> "Spending", tx_out_ref |-> Some(ref), policy_id |-> None]
Minting(p) == [tag |-> "Minting", tx_out_ref |-> None, policy_id |-> Some(p)]
ScriptContext(info, purpose) == [tx_info |-> info, purpose |-> purpose]
ScriptInvocation(script, datum, red, ctx) ==
    [script_type |-> script, datum |-> datum, redeemer |-> red, script_context |-> ctx]

\* the policies of the mint in the order enumerate() visits them
mint_policies(t) ==
    LET m == t.transaction_body.mint
    IN  IF m = None THEN <<>> ELSE [j \in 1..Len(Get(m)) |-> Get(m)[j][1]]

----------------------------------------------------------------------------
\* Witness resolver: one iteration of each loop

\* lines 230-283 for input k (0-based): the transaction after the iteration, the
\* exception it raised if any, the invocation it appended if any
spend_iteration(t, ris, rris, k, info) ==
    LET spending_input == ris[k + 1]
        pay == spending_input.output.address.payment_part
        red == spending_redeemer(t, k)
        t2 == [t EXCEPT !.transaction_witness_set.plutus_v2_script =
                            scripts_after_pool(t, ris, rris)]
        spending_script == find_script(t2.transaction_witness_set.plutus_v2_script, pay)
        d == resolve_datum(t2, spending_input.output)
    IN  IF pay.type # "ScriptHash"
        THEN [tx |-> t, error |-> None, invocation |-> None]
        ELSE IF red = None
        THEN [tx |-> t, error |-> Some(MissingSpendRedeemer(k)), invocation |-> None]
        ELSE IF spending_script = None
        THEN [tx |-> t2, error |-> Some(ScriptNotInContext), invocation |-> None]
        ELSE IF d.error # None
        THEN [tx |-> t2, error |-> d.error, invocation |-> None]
        ELSE [tx |-> t2, error |-> None,
              invocation |-> Some(ScriptInvocation(
                  Get(spending_script), d.datum, Get(red),
                  ScriptContext(info, Spending(to_tx_out_ref(spending_input.input)))))]

\* lines 284-312 for policy k (0-based): the exceptions the iteration can end in.
\* No iteration appends: minting_script.hash() is evaluated on a bytes object, and
\* ScriptInvocation is called with three arguments for its four fields.
mint_iteration(t, k) ==
    LET minting_script_hash == mint_policies(t)[k + 1]
        w == t.transaction_witness_set.plutus_v2_script
    IN  IF minting_redeemer(t, k) = None THEN {MissingMintRedeemer(k)}
        ELSE IF w = None THEN {NoneNotIterable}
        ELSE IF find_script(w, minting_script_hash) = None THEN {ScriptNotInContext}
        ELSE MintInvocationErrors

----------------------------------------------------------------------------
\* Inputs of the model

MaxInputs == 2

InjectiveSeqs(S, n) ==
    {s \in UNION {[1..k -> S] : k \in 0..n} :
        \A a, b \in 1..Len(s) : a # b => s[a] # s[b]}

SeqsUpTo2(S) == {<<>>} \cup {<<a>> : a \in S} \cup {<<a, b>> : a \in S, b \in S}

Ada(coin) == LedgerValue(coin, Some(<<>>))

\* the unspent outputs a transaction of the model can spend
uKey == UTxO(TransactionInput("ta", 1),
             TransactionOutput(VerificationKeyHash("k1"), Some(VerificationKeyHash("k2")),
                               Ada(5), None, None, None))
uInline == UTxO(TransactionInput("ta", 0),
                TransactionOutput(ScriptHash("h1"), None,
                    LedgerValue(2, Some(<< <<ScriptHash("h2"), << <<"tok", 3>> >> >> >>)),
                    Some("d1"), None, None))
uHash == UTxO(TransactionInput("tb", 0),
              TransactionOutput(ScriptHash("h1"), Some(ScriptHash("h2")),
                                Ada(3), None, Some("H2"), None))
uBoth == UTxO(TransactionInput("tb", 1),
              TransactionOutput(ScriptHash("h2"), None,
                                Ada(4), Some("d1"), Some("H2"), Some("s1")))
uBare == UTxO(TransactionInput("tc", 0),
              TransactionOutput(ScriptHash("h1"), None, Ada(1), None, None, None))
uRef == UTxO(TransactionInput("tr", 0),
             TransactionOutput(VerificationKeyHash("k1"), None,
                               Ada(9), None, None, Some("s1")))

InputUniverse == {uKey, uInline, uHash, uBoth, uBare}
InputLists == InjectiveSeqs(InputUniverse, MaxInputs)
ReferenceInputLists == {<<>>, <<uRef>>}

RedeemerUniverse ==
    {Redeemer("SPEND", 0, "r1"), Redeemer("SPEND", 0, "r2"),
     Redeemer("SPEND", 1, "r1"), Redeemer("MINT", 0, "r1")}
RedeemerLists == {None} \cup {Some(l) : l \in SeqsUpTo2(RedeemerUniverse)}

WitnessScriptLists == {None, Some(<<>>), Some(<<"s1">>), Some(<<"s2">>)}
WitnessDatumLists == {None, Some(<<"d1">>), Some(<<"d1", "d2">>)}

mintOne == <<ScriptHash("h1"), << <<"tok", 1>> >> >>
mintTwo == <<ScriptHash("h2"), << <<"nft", 1>>, <<"tok", -2>> >> >>
mintBare == <<ScriptHash("h2"), <<>> >>
Mints == {None, Some(<<>>), Some(<<mintBare>>), Some(<<mintOne>>), Some(<<mintTwo, mintOne>>)}

changeOutput == TransactionOutput(VerificationKeyHash("k1"), None, Ada(7), None, None, None)
datumOutput ==
    TransactionOutput(ScriptHash("h2"), None,
        LedgerValue(2, Some(<<mintOne>>)), Some("d2"), None, None)

\* an output whose payment part is neither a key hash nor a script hash
oddOutput == TransactionOutput(DatumHash("H1"), None, Ada(1), None, None, None)
BodyOutputLists ==
    {<<>>, <<changeOutput, datumOutput>>, <<datumOutput, oddOutput>>, <<oddOutput>>}

Slots == {None, Some(0), Some(1000), Some(2000)}

Transaction(ins, refs, outs, fee, mint, certs, start, ttl, reds, scripts, data) ==
    [transaction_body |->
        [inputs |-> [j \in 1..Len(ins) |-> ins[j].input],
         reference_inputs |-> Some([j \in 1..Len(refs) |-> refs[j].input]),
         outputs |-> outs, fee |-> fee, mint |-> mint, certificates |-> certs,
         validity_start |-> start, ttl |-> ttl, id |-> "tx0"],
     transaction_witness_set |->
        [redeemer |-> reds, plutus_v2_script |-> scripts, plutus_data |-> data]]

InitLocals ==
    /\ tx_info = None
    /\ script_contexts = <<>>
    /\ i = 0
    /\ pc = "start"
    /\ error = None
    /\ returned = None

\* transactions that vary what the witness resolver reads
InitResolver ==
    \E ins \in InputLists, refs \in ReferenceInputLists, mint \in Mints,
       reds \in RedeemerLists, scripts \in WitnessScriptLists,
       data \in WitnessDatumLists :
        /\ tx = Transaction(ins, refs, <<changeOutput>>, 2, mint, None, None, None,
                            reds, scripts, data)
        /\ resolved_inputs = ins
        /\ resolved_reference_inputs = refs

\* transactions that vary what only the TxInfo builder reads
InitBody ==
    \E ins \in {<<>>, <<uInline>>, <<uKey, uBoth>>}, outs \in BodyOutputLists,
       fee \in {0, 2}, mint \in Mints, certs \in {None, Some(<<>>), Some(<<"cert">>)},
       start \in Slots, ttl \in Slots :
        /\ tx = Transaction(ins, <<>>, outs, fee, mint, certs, start, ttl,
                            Some(<<Redeemer("SPEND", 0, "r1")>>), Some(<<"s1">>), None)
        /\ resolved_inputs = ins
        /\ resolved_reference_inputs = <<>>

\* transactions whose body does not list every resolved output: to_tx_info pairs
\* the body's inputs with the resolved outputs, the resolver walks the latter
uOdd == UTxO(TransactionInput("td", 0), oddOutput)
InitPairing ==
    \E ins \in {<<uKey>>, <<uOdd>>, <<uInline>>, <<uKey, uOdd>>},
       refs \in {<<>>, <<uRef>>, <<uOdd>>},
       paired \in BOOLEAN, listed \in {"none", "empty", "all"},
       certs \in {None, Some(<<"cert">>)},
       reds \in {None, Some(<<Redeemer("SPEND", 0, "r1")>>)} :
        /\ tx = LET t == Transaction(ins, refs, <<changeOutput>>, 2, None, certs, None,
                                     None, reds, Some(<<"s1">>), None)
                     body == t.transaction_body
                IN  [t EXCEPT !.transaction_body =
                        [body EXCEPT
                            !.inputs = IF paired THEN @ ELSE SubSeq(@, 1, Len(@) - 1),
                            !.reference_inputs =
                                CASE listed = "none" -> None
                                  [] listed = "empty" -> Some(<<>>)
                                  [] listed = "all" -> @]]
        /\ resolved_inputs = ins
        /\ resolved_reference_inputs = refs

Init == InitLocals /\ (InitResolver \/ InitBody \/ InitPairing)

----------------------------------------------------------------------------
\* generate_script_contexts_resolved, step by step

\* append_invocation putting the new invocation first
prepend_invocation(list, invocation) == <<invocation>> \o list

\* script_contexts.append(invocation)
append_invocation(list, invocation) == Append(list, invocation)

\* Raise handing the invocations built so far to the caller
raise_returning_partial(e) ==
    /\ error' = Some(e)
    /\ returned' = Some(script_contexts)
    /\ UNCHANGED pc

\* an exception leaves the function where it is raised: nothing is returned
Raise(e) ==
    /\ error' = Some(e)
    /\ UNCHANGED <<pc, returned>>

\* lines 224-229
BuildTxInfo ==
    /\ pc = "start"
    /\ error = None
    /\ \E r \in to_tx_info_raises(tx, outputs_of(resolved_inputs),
                                   outputs_of(resolved_reference_inputs)) :
        IF r # None
        THEN /\ Raise(Get(r))
             /\ UNCHANGED <<tx_info, script_contexts>>
        ELSE /\ tx_info' = Some(to_tx_info(tx, outputs_of(resolved_inputs),
                                           outputs_of(resolved_reference_inputs)))
             /\ script_contexts' = <<>>
             /\ pc' = "spend"
             /\ UNCHANGED <<error, returned>>
    /\ UNCHANGED <<tx, resolved_inputs, resolved_reference_inputs, i>>

\* lines 230-283, one iteration
SpendStep ==
    /\ pc = "spend"
    /\ error = None
    /\ i < Len(resolved_inputs)
    /\ LET r == spend_iteration(tx, resolved_inputs, resolved_reference_inputs, i,
                                Get(tx_info))
       IN  /\ tx' = r.tx
           /\ IF r.error # None
              THEN /\ Raise(Get(r.error))
                   /\ UNCHANGED <<script_contexts, i>>
              ELSE /\ script_contexts' =
                        IF r.invocation = None THEN script_contexts
                        ELSE append_invocation(script_contexts, Get(r.invocation))
                   /\ i' = i + 1
                   /\ UNCHANGED <<pc, error, returned>>
    /\ UNCHANGED <<resolved_inputs, resolved_reference_inputs, tx_info>>

\* the spending loop is exhausted: line 284 starts the minting loop
SpendDone ==
    /\ pc = "spend"
    /\ error = None
    /\ i = Len(resolved_inputs)
    /\ pc' = "mint"
    /\ i' = 0
    /\ UNCHANGED <<tx, resolved_inputs, resolved_reference_inputs, tx_info,
                   script_contexts, error, returned>>

\* lines 284-312, one iteration
MintStep ==
    /\ pc = "mint"
    /\ error = None
    /\ i < Len(mint_policies(tx))
    /\ \E e \in mint_iteration(tx, i) : Raise(e)
    /\ UNCHANGED <<tx, resolved_inputs, resolved_reference_inputs, tx_info,
                   script_contexts, i>>

\* line 313
Return ==
    /\ pc = "mint"
    /\ error = None
    /\ i = Len(mint_policies(tx))
    /\ returned' = Some(script_contexts)
    /\ pc' = "done"
    /\ UNCHANGED <<tx, resolved_inputs, resolved_reference_inputs, tx_info,
                   script_contexts, i, error>>

Next == BuildTxInfo \/ SpendStep \/ SpendDone \/ MintStep \/ Return

Spec == Init /\ [][Next]_vars

----------------------------------------------------------------------------
\* Vocabulary of the properties

Body == tx.transaction_body
Witness == tx.transaction_witness_set

Terminated == error # None \/ pc = "done"
NoCertificates == Body.certificates = None \/ Get(Body.certificates) = <<>>
\* no amount of the transaction holds a token: no conversion iterates an Asset entry
NoTokens ==
    /\ \A u \in Range(resolved_inputs \o resolved_reference_inputs) :
            ~ iterates_asset_entries(u.output.amount.multi_asset)
    /\ \A o \in Range(Body.outputs) : ~ iterates_asset_entries(o.amount.multi_asset)
    /\ ~ iterates_asset_entries(Body.mint)
\* every payment part of the transaction is a key hash or a script hash
KnownPaymentKeys ==
    /\ \A u \in Range(resolved_inputs \o resolved_reference_inputs) :
            to_payment_credential_defined(u.output.address.payment_part)
    /\ \A o \in Range(Body.outputs) : to_payment_credential_defined(o.address.payment_part)

InputCount == Len(resolved_inputs)
OutputOf(k) == resolved_inputs[k + 1].output
PaymentOf(k) == OutputOf(k).address.payment_part
ScriptPositions == {k \in 0..(InputCount - 1) : PaymentOf(k).type = "ScriptHash"}
\* the j-th script-controlled position, in input order
ScriptPosition(j) ==
    CHOOSE k \in ScriptPositions : Cardinality({m \in ScriptPositions : m < k}) = j - 1

OutRefOf(k) ==
    [id |-> [tx_id |-> resolved_inputs[k + 1].input.transaction_id],
     idx |-> resolved_inputs[k + 1].input.index]
SpendingPurpose(k) ==
    [tag |-> "Spending", tx_out_ref |-> Some(OutRefOf(k)), policy_id |-> None]
MintingPurpose(p) ==
    [tag |-> "Minting", tx_out_ref |-> None, policy_id |-> Some(p.payload)]
\* the invocations built so far for input k
InvocationsOf(k) ==
    {j \in 1..Len(script_contexts) :
        script_contexts[j].script_context.purpose = SpendingPurpose(k)}

RedeemerList == IF Witness.redeemer = None THEN <<>> ELSE Get(Witness.redeemer)
\* positions in the witness set's redeemers with index k and the given tag
RedeemersAt(k, tag) ==
    {j \in 1..Len(RedeemerList) : RedeemerList[j].index = k /\ RedeemerList[j].tag = tag}

AttachedScripts ==
    IF Witness.plutus_v2_script = None THEN {} ELSE Range(Get(Witness.plutus_v2_script))
CarriedScripts ==
    {Get(u.output.script) :
        u \in {v \in Range(resolved_inputs \o resolved_reference_inputs) :
                  v.output.script # None}}
ScriptPool == AttachedScripts \cup CarriedScripts
AttachedDatums ==
    IF Witness.plutus_data = None THEN {} ELSE Range(Get(Witness.plutus_data))

Policies == IF Body.mint = None THEN <<>> ELSE [j \in 1..Len(Get(Body.mint)) |-> Get(Body.mint)[j][1]]

FailedWith(type, msgs) ==
    error # None /\ Get(error).type = type /\ Get(error).msg \in msgs
MissingRedeemerAt(k) ==
    FailedWith("ValueError", {"Missing redeemer for script input"}) /\ Get(error).pos = Some(k)
UnsupportedScript ==
    FailedWith("NotImplementedError", {"Can not validate spending of non plutus v2 script"})
MissingDatum ==
    FailedWith("ValueError",
               {"No datum with hash", "Spending input is missing an attached datum"})
\* the spending loop raised while resolving input k
SpendFailedAt(k) == pc = "spend" /\ error # None /\ i = k

----------------------------------------------------------------------------
\* Properties

\* C1: when the TxInfo of a transaction without script-controlled inputs is built
\* and every mint policy P_k (k-th in mint order) has a redeemer with index k and
\* tag MINT and a directly-attached script of hash P_k, the function returns a
\* list that holds, for each P_k, one invocation with purpose Minting(P_k), no
\* datum and a redeemer of index k and tag MINT.
MintPoliciesResolved ==
    /\ ScriptPositions = {}
    /\ tx_info # None
    /\ Len(Policies) > 0
    /\ \A k \in 1..Len(Policies) :
        /\ RedeemersAt(k - 1, "MINT") # {}
        /\ \E s \in AttachedScripts : plutus_script_hash(s) = Policies[k]
MintInvocationPerPolicy ==
    (Terminated /\ MintPoliciesResolved) =>
        /\ returned # None
        /\ Len(Get(returned)) = Len(Policies)
        /\ \A k \in 1..Len(Policies) :
            LET inv == Get(returned)[k]
            IN  /\ inv.script_context.purpose = MintingPurpose(Policies[k])
                /\ inv.datum = None
                /\ inv.redeemer \in {RedeemerList[j] : j \in RedeemersAt(k - 1, "MINT")}

\* C2: the script of a script-controlled input k is looked up in the pool of the
\* directly-attached scripts and the reference scripts carried by the resolved
\* inputs and reference inputs: the spending loop fails at k with UnsupportedScript
\* only if no script of the pool hashes to the input's payment script hash, and an
\* invocation built for k holds a script of the pool with that hash.
SpendScriptFromPool ==
    \A k \in ScriptPositions :
        /\ (SpendFailedAt(k) /\ UnsupportedScript) =>
                ~ \E s \in ScriptPool : plutus_script_hash(s) = PaymentOf(k)
        /\ (SpendFailedAt(k) /\ RedeemersAt(k, "SPEND") # {}
                /\ ~ \E s \in ScriptPool : plutus_script_hash(s) = PaymentOf(k)) =>
                UnsupportedScript
        /\ \A j \in InvocationsOf(k) :
                /\ script_contexts[j].script_type \in ScriptPool
                /\ plutus_script_hash(script_contexts[j].script_type) = PaymentOf(k)

\* C3: when the first script-controlled input is at position k and the witness set
\* has no redeemer with index k and tag SPEND (its redeemers may be absent
\* altogether), the function ends in the MissingRedeemer error naming k and
\* returns nothing (for transactions without certificates, tokens and unknown
\* payment keys, which the TxInfo builder may reject before any input is resolved).
MissingSpendRedeemerReported ==
    \A k \in ScriptPositions :
        (/\ Terminated
         /\ NoCertificates
         /\ NoTokens
         /\ KnownPaymentKeys
         /\ \A m \in ScriptPositions : k <= m
         /\ RedeemersAt(k, "SPEND") = {}) =>
            MissingRedeemerAt(k) /\ returned = None

\* C4: a returned list holds one invocation per script-controlled input, in input
\* order and with purpose Spending(out-ref of that input), none for a
\* key-controlled input, followed by one invocation per mint policy in mint order.
InvocationsInInputOrder ==
    pc = "done" =>
        LET list == Get(returned)
            n == Cardinality(ScriptPositions)
        IN  /\ returned # None
            /\ Len(list) = n + Len(Policies)
            /\ \A j \in 1..n :
                list[j].script_context.purpose = SpendingPurpose(ScriptPosition(j))
            /\ \A j \in 1..Len(Policies) :
                list[n + j].script_context.purpose = MintingPurpose(Policies[j])
\* two script-controlled inputs were resolved and returned
TwoSpendingInvocationsReturned ==
    /\ pc = "done"
    /\ Cardinality(ScriptPositions) = 2
    /\ Len(Get(returned)) = 2

\* C5: every Value of the built TxInfo (fee, mint, the value of every output and of
\* every resolved input) has the native-currency entry under policy "" and token
\* ""; for the values made from a ledger amount its quantity is the coin and the
\* other policies are those of the amount's multi-asset, with the same quantities.
HasNativeEntry(v) == "" \in DOMAIN v /\ "" \in DOMAIN v[""]
ConvertsAmount(v, amount) ==
    LET ma == Get(amount.multi_asset)
    IN  /\ HasNativeEntry(v)
        /\ v[""][""] = amount.coin
        /\ DOMAIN v \ {""} = {ma[j][1].payload : j \in 1..Len(ma)}
        /\ \A j \in 1..Len(ma) :
            /\ DOMAIN v[ma[j][1].payload] = {ma[j][2][a][1] : a \in 1..Len(ma[j][2])}
            /\ \A a \in 1..Len(ma[j][2]) :
                v[ma[j][1].payload][ma[j][2][a][1]] = ma[j][2][a][2]
NativeCurrencyInEveryValue ==
    tx_info # None =>
        LET info == Get(tx_info)
        IN  /\ HasNativeEntry(info.fee)
            /\ info.fee[""][""] = Body.fee
            /\ HasNativeEntry(info.mint)
            /\ \A j \in 1..Len(info.outputs) :
                ConvertsAmount(info.outputs[j].value, Body.outputs[j].amount)
            /\ \A j \in 1..Len(info.inputs) :
                ConvertsAmount(info.inputs[j].resolved.value,
                               resolved_inputs[j].output.amount)

\* C6: an invocation built for script-controlled input k has the output's inline
\* datum when there is one (a datum hash beside it is ignored), and otherwise the
\* attached datum whose hash is the output's datum hash; the spending loop fails
\* at k with MissingDatum exactly when redeemer and script of k resolve and the
\* output has no inline datum and either no datum hash or one no attached datum
\* hashes to.
DatumUnresolvable(k) ==
    /\ OutputOf(k).datum = None
    /\ \/ OutputOf(k).datum_hash = None
       \/ ~ \E d \in AttachedDatums : DatumDigest[d] = Get(OutputOf(k).datum_hash)
DatumResolution ==
    \A k \in ScriptPositions :
        /\ \A j \in InvocationsOf(k) :
            LET inv == script_contexts[j]
            IN  IF OutputOf(k).datum # None
                THEN inv.datum = OutputOf(k).datum
                ELSE /\ OutputOf(k).datum_hash # None
                     /\ inv.datum # None
                     /\ Get(inv.datum) \in AttachedDatums
                     /\ DatumDigest[Get(inv.datum)] = Get(OutputOf(k).datum_hash)
        /\ (SpendFailedAt(k) /\ MissingDatum) => DatumUnresolvable(k)
        /\ (/\ SpendFailedAt(k)
            /\ RedeemersAt(k, "SPEND") # {}
            /\ \E s \in AttachedScripts : plutus_script_hash(s) = PaymentOf(k)) =>
                MissingDatum
\* one invocation took the inline datum of an output that also has a datum hash,
\* another took its datum from the attached datums by hash
InlineAndHashedDatumResolved ==
    /\ \E k \in ScriptPositions :
        /\ OutputOf(k).datum # None /\ OutputOf(k).datum_hash # None
        /\ InvocationsOf(k) # {}
    /\ \E k \in ScriptPositions :
        /\ OutputOf(k).datum = None
        /\ InvocationsOf(k) # {}

\* C7: when resolution fails nothing is returned, whatever was built before; a
\* list is returned only by a run that raised nothing.
AllOrNothing ==
    /\ error # None => returned = None
    /\ returned # None => (error = None /\ pc = "done" /\ Get(returned) = script_contexts)
\* a failure after an invocation had been built
FailedAfterInvocation ==
    /\ error # None
    /\ Len(script_contexts) >= 1
    /\ returned = None

\* C8: the validity range of the TxInfo has lower bound (NegInf, exclusive) for an
\* absent start and (Finite(s), inclusive) for a start s, and upper bound (PosInf,
\* exclusive) for an absent ttl and (Finite(t), inclusive) for a ttl t, each bound
\* depending on its own slot only.
ValidRangeTable ==
    tx_info # None =>
        LET range == Get(tx_info).valid_range
            start == Body.validity_start
            ttl == Body.ttl
        IN  /\ start = None =>
                range.lower_bound =
                    [limit |-> [tag |-> "NegInfPOSIXTime", time |-> <<>>], closed |-> FALSE]
            /\ start # None =>
                range.lower_bound =
                    [limit |-> [tag |-> "FinitePOSIXTime", time |-> start], closed |-> TRUE]
            /\ ttl = None =>
                range.upper_bound =
                    [limit |-> [tag |-> "PosInfPOSIXTime", time |-> <<>>], closed |-> FALSE]
            /\ ttl # None =>
                range.upper_bound =
                    [limit |-> [tag |-> "FinitePOSIXTime", time |-> ttl], closed |-> TRUE]
\* the range of start 1000 and ttl 2000 was built
FiniteRangeBuilt ==
    /\ tx_info # None
    /\ Body.validity_start = <<1000>>
    /\ Body.ttl = <<2000>>

\* C9 as claimed: no invocation is built for a script-controlled input k whose
\* spend redeemer is ambiguous (two or more redeemers with index k and tag SPEND),
\* and no list is returned for a transaction that has such an input.
AmbiguousRedeemerRejected ==
    \A k \in ScriptPositions :
        Cardinality(RedeemersAt(k, "SPEND")) >= 2 =>
            /\ InvocationsOf(k) = {}
            /\ pc # "done"
\* C9 as amended: the redeemer of an invocation built for input k is the first
\* redeemer of the witness set, in its order, with index k and tag SPEND, and the
\* spending loop fails with MissingRedeemer naming k only when there is none.
FirstSpendRedeemerTaken ==
    \A k \in ScriptPositions :
        /\ \A j \in InvocationsOf(k) :
            /\ RedeemersAt(k, "SPEND") # {}
            /\ \E f \in RedeemersAt(k, "SPEND") :
                /\ \A g \in RedeemersAt(k, "SPEND") : f <= g
                /\ script_contexts[j].redeemer = RedeemerList[f]
        /\ MissingRedeemerAt(k) => RedeemersAt(k, "SPEND") = {}
\* an invocation built for an input with two different redeemers of its index
AmbiguousRedeemerResolved ==
    \E k \in ScriptPositions :
        /\ InvocationsOf(k) # {}
        /\ \E f, g \in RedeemersAt(k, "SPEND") : RedeemerList[f] # RedeemerList[g]

\* C10: no step of generate_script_contexts_resolved changes the witness set's
\* list of directly-attached scripts.
AttachedScriptsUntouched ==
    [][tx'.transaction_witness_set.plutus_v2_script =
        tx.transaction_witness_set.plutus_v2_script]_vars

====
